---- MODULE Spec2Model ----
(***************************************************************************)
(* Bar-by-bar backtest of MACDHistogramStrategy / MACrossStrategy run by   *)
(* BacktestEngine on the backtrader default broker, followed by main()'s   *)
(* hand-over of the equity curve to PerformanceAnalyzer.calculate_metrics. *)
(*                                                                         *)
(* Prices, cash and sizes are integers; fractions of the source are kept   *)
(* exact by cross-multiplication (0.95 = 95/100, 1.2 = 12/10, 0.15 =       *)
(* 15/100, 0.07 = 7/100).  The indicator lines (MACD, EMA, SMA, CrossOver) *)
(* are computed by the library from the data feed; a bar carries their     *)
(* readings.  For a feed whose close never changed every moving average    *)
(* equals that close, hence macd = signal = histogram = 0 and              *)
(* trend_ema = close: ReadingsOf enforces this.  The same holds on every   *)
(* bar when the first bar already meets the minimum period (lookback = 0): *)
(* every indicator period is then 1 and each average equals its input.     *)
(***************************************************************************)
EXTENDS Integers, Sequences, FiniteSets, TLC

VARIABLES
    strategy,          \* strategy class added to the engine: "macd" | "macross"
    macd_threshold,    \* MACDHistogramStrategy.params.macd_threshold
    lookback,          \* bars before the minimum period of the strategy's indicators is met
    initial_cash,      \* BacktestEngine.initial_cash
    data,              \* main(): result of download_data: "unset" | "None" | "table"
    datas,             \* number of feeds given to the engine by add_data
    nbars,             \* len(data)
    bar,               \* number of bars delivered so far (len of the feed)
    cur,               \* the current bar, lines [0]
    prev_hist,         \* macd_hist[-1]
    prev_below,        \* history: on the bar before, the close was below the trend EMA
    const_close,       \* history: every close delivered so far is the same
    pc,                \* position of the run
    cash,              \* broker cash
    position,          \* broker position size of the data
    orders,            \* every order created so far, by ref
    submitted,         \* broker queue of refs waiting for the next bar
    notifs,            \* broker: order notifications not yet handed to the strategy
    orderspending,     \* strategy: notifications to pass to notify_order
    order,             \* MACDHistogramStrategy.order (0 = None, else a ref)
    buy_price,         \* MACDHistogramStrategy.buy_price (0 = None)
    last_operation,    \* MACDHistogramStrategy.last_operation
    values,            \* ValueAnalyzer.values
    portfolio_values,  \* BacktestEngine.portfolio_values
    pv,                \* main(): the Series handed to PerformanceAnalyzer
    metrics,           \* result of calculate_metrics, or the error raised
    factor_data,       \* FactorAnalyzer.factor_data: the rows of the factor table
    results            \* what analyze_factors returns: one record per (factor, period)

\* what is fixed before the run starts
config == << strategy, macd_threshold, lookback, initial_cash >>

\* state of the factor analysis
analysis == << factor_data, results >>

vars == << config, analysis, data, datas, nbars, bar, cur, prev_hist, prev_below, const_close, pc, cash, position,
           orders, submitted, notifs, orderspending, order, buy_price, last_operation, values,
           portfolio_values, pv, metrics >>

(***************************************************************************)
(* Bounds of the model.                                                    *)
(***************************************************************************)
MaxBars == 5          \* longest data table explored
Lookback == 1         \* bars before the strategy's minimum period is met
InitialCash == 20     \* starting capital (scaled down)
MaxLen == 4           \* longest equity sequence handed to the analyzer alone
MaxRows == 3          \* longest table a download returns, in runs that start at the download
MaxFactorRows == 3    \* longest factor table analysed

Prices == {8, 10, 20}
Thresholds == {-1, 0, 1}
EquityValues == {5, 10, 20}

(***************************************************************************)
(* Strategy parameters.                                                    *)
(***************************************************************************)
exit_profit_pct == 15      \* per cent
exit_loss_pct == 7         \* per cent
stake == 1                 \* default sizer of MACrossStrategy.buy()/sell()
commission == 0            \* the engine sets no commission scheme on its broker

NoBar == [open |-> 0, close |-> 0, hist |-> 0, macd |-> 0, ema |-> 0,
          volume |-> 0, volume_ma |-> 0, crossover |-> 0]

\* Readings a bar of the feed can carry for the strategy s; flat: no close
\* delivered so far differs from this bar's, or every indicator period is 1.
ReadingsOf(s, flat, b) ==
    /\ flat => (b.hist = 0 /\ b.macd = 0 /\ b.ema = b.close /\ b.crossover = 0)
    /\ s = "macd" => b.crossover = 0
    /\ s = "macross" => (b.hist = 0 /\ b.macd = 0 /\ b.ema = b.close /\ b.volume = 12)

Bars(s, first, last_close) ==
    { b \in [open : Prices, close : Prices, hist : {-1, 0, 1}, macd : {0, 1},
             ema : {7, 8, 9, 10, 11, 19, 20, 21}, volume : {12, 13},
             volume_ma : {10}, crossover : {-1, 0, 1}] :
        /\ b.ema \in {b.close - 1, b.close, b.close + 1}
        /\ ReadingsOf(s, first \/ b.close = last_close, b) }

(***************************************************************************)
(* Broker (bt.Cerebro()'s default broker: market orders, no commission     *)
(* scheme set, cash checked at submission and at execution).               *)
(***************************************************************************)
\* Strategy.buy / Strategy.sell: no order is created for a size of 0, the
\* broker gets abs(size); the new order is queued and notified as Submitted.
NewOrder(side, size, b, n) ==
    [side |-> side, size |-> IF size < 0 THEN -size ELSE size, cbar |-> n,
     cprice |-> b.close, status |-> "Submitted", ebar |-> 0, eprice |-> 0]

Submit(br, side, size, b, n) ==
    IF size = 0 THEN br
    ELSE [br EXCEPT !.orders = Append(@, NewOrder(side, size, b, n)),
                    !.submitted = Append(@, Len(br.orders) + 1),
                    !.notifs = Append(@, [ref |-> Len(br.orders) + 1,
                                          status |-> "Submitted"]),
                    !.last = Len(br.orders) + 1]

\* charges one unit per share traded
CommissionPerShare(size, price) == size

\* commission of a trade under the broker's commission scheme
Commission(size, price) == commission * size * price

\* Cash left after an order of this side and size trades at this price.
CashAfter(c, side, size, price) ==
    IF side = "buy" THEN c - size * price - Commission(size, price)
    ELSE c + size * price - Commission(size, price)

PositionAfter(p, side, size) ==
    IF side = "buy" THEN p + size ELSE p - size

\* check_submitted: each queued order is pseudo-executed at its creation
\* price on a running copy of cash; it is accepted if cash stays >= 0 and
\* ends as Margin otherwise.
RECURSIVE check_submitted(_, _, _)
check_submitted(q, br, pcash) ==
    IF q = << >> THEN br
    ELSE LET ref == Head(q)
             o == br.orders[ref]
             c == CashAfter(pcash, o.side, o.size, o.cprice)
         IN  IF c >= 0
             THEN check_submitted(Tail(q),
                     [br EXCEPT !.orders[ref].status = "Accepted",
                                !.pending = Append(@, ref),
                                !.notifs = Append(@, [ref |-> ref, status |-> "Accepted"])],
                     c)
             ELSE check_submitted(Tail(q),
                     [br EXCEPT !.orders[ref].status = "Margin",
                                !.notifs = Append(@, [ref |-> ref, status |-> "Margin"])],
                     c)

\* Execution of one accepted market order on the bar that follows its
\* creation, at that bar's open; a buy the cash cannot pay ends as Margin.
execute(br, ref, b, n) ==
    LET o == br.orders[ref]
        c == CashAfter(br.cash, o.side, o.size, b.open)
    IN  IF o.side = "buy" /\ c < 0
        THEN [br EXCEPT !.orders[ref].status = "Margin",
                        !.notifs = Append(@, [ref |-> ref, status |-> "Margin"])]
        ELSE [br EXCEPT !.orders[ref].status = "Completed",
                        !.orders[ref].ebar = n,
                        !.orders[ref].eprice = b.open,
                        !.cash = c,
                        !.position = PositionAfter(@, o.side, o.size),
                        !.notifs = Append(@, [ref |-> ref, status |-> "Completed"])]

RECURSIVE try_exec(_, _, _, _)
try_exec(q, br, b, n) ==
    IF q = << >> THEN br
    ELSE try_exec(Tail(q), execute(br, Head(q), b, n), b, n)

\* broker.next() on the newly delivered bar b (number n).
broker_next(br, b, n) ==
    LET checked == check_submitted(br.submitted,
                                   [br EXCEPT !.submitted = << >>, !.pending = << >>],
                                   br.cash)
    IN  try_exec(checked.pending, checked, b, n)

Broker == [cash |-> cash, position |-> position, orders |-> orders,
           submitted |-> submitted, notifs |-> notifs, pending |-> << >>, last |-> 0]

(***************************************************************************)
(* MACDHistogramStrategy                                                   *)
(***************************************************************************)
\* falls back to a value below every threshold when the line holds a single value
PrevHistLow(ph, n) == IF n > 1 THEN ph ELSE -2

\* macd_hist[-1], or 0 when the line holds a single value
PrevHist(ph, n) == IF n > 1 THEN ph ELSE 0

\* entry rule that forgets the volume filter
should_buy_novolume(b, ph, n, lastop) ==
    /\ PrevHist(ph, n) < macd_threshold /\ b.hist > macd_threshold
    /\ b.close > b.ema /\ b.macd > 0 /\ lastop # "buy"

\* entry rule that forgets the trend filter
should_buy_notrend(b, ph, n, lastop) ==
    /\ PrevHist(ph, n) < macd_threshold /\ b.hist > macd_threshold
    /\ b.volume * 10 > b.volume_ma * 12 /\ b.macd > 0 /\ lastop # "buy"

should_buy(b, ph, n, lastop) ==
    LET curr_hist == b.hist
        prev_hist_ == PrevHist(ph, n)
        macd_cross_up == prev_hist_ < macd_threshold /\ curr_hist > macd_threshold
        price_above_trend == b.close > b.ema
        volume_increase == b.volume * 10 > b.volume_ma * 12
        macd_above_zero == b.macd > 0
    IN  macd_cross_up /\ price_above_trend /\ volume_increase /\ macd_above_zero
        /\ lastop # "buy"

TakeProfit(b, bp) == bp # 0 /\ (b.close - bp) * 100 >= exit_profit_pct * bp
\* loss computed with the sign of the profit
StopLossSign(b, bp) == bp # 0 /\ (b.close - bp) * 100 >= exit_loss_pct * bp

StopLoss(b, bp) == bp # 0 /\ (bp - b.close) * 100 >= exit_loss_pct * bp

should_sell(b, ph, n, pos, bp, lastop) ==
    IF pos = 0 THEN FALSE
    ELSE IF TakeProfit(b, bp) THEN TRUE
    ELSE IF StopLoss(b, bp) THEN TRUE
    ELSE LET curr_hist == b.hist
             prev_hist_ == PrevHist(ph, n)
             macd_cross_down == prev_hist_ > -macd_threshold /\ curr_hist < -macd_threshold
             price_below_trend == b.close < b.ema
         IN  (macd_cross_down \/ price_below_trend) /\ lastop # "sell"

\* rounds the size up instead of truncating it
BuySizeCeil(c, close) == (c * 95 + 100 * close - 1) \div (100 * close)

\* sizes the order with all of the cash
BuySizeAllCash(c, close) == c \div close

\* int(cash * 0.95 / close): truncation toward zero
BuySize(c, close) ==
    IF c >= 0 THEN (c * 95) \div (100 * close) ELSE -(((-c) * 95) \div (100 * close))

\* sells one share more than is held
SellSizeOver(pos) == pos + 1

\* size of the sell order: self.position.size
SellSize(pos) == pos

\* calls buy()/sell() without keeping the order in self.order
macd_next_untracked(st, br, b, ph, n) ==
    IF st.order # 0 THEN [st |-> st, br |-> br]
    ELSE IF br.position = 0
    THEN IF should_buy(b, ph, n, st.last_operation)
         THEN [st |-> [st EXCEPT !.last_operation = "buy"],
               br |-> Submit(br, "buy", BuySize(br.cash, b.close), b, n)]
         ELSE [st |-> st, br |-> br]
    ELSE IF should_sell(b, ph, n, br.position, st.buy_price, st.last_operation)
         THEN [st |-> [st EXCEPT !.last_operation = "sell"],
               br |-> Submit(br, "sell", SellSize(br.position), b, n)]
         ELSE [st |-> st, br |-> br]

\* next(): st is the strategy's fields, br the broker
macd_next(st, br, b, ph, n) ==
    IF st.order # 0 THEN [st |-> st, br |-> br]
    ELSE IF br.position = 0
    THEN IF should_buy(b, ph, n, st.last_operation)
         THEN LET br2 == Submit(br, "buy", BuySize(br.cash, b.close), b, n)
              IN  [st |-> [st EXCEPT !.order = br2.last, !.last_operation = "buy"],
                   br |-> br2]
         ELSE [st |-> st, br |-> br]
    ELSE IF should_sell(b, ph, n, br.position, st.buy_price, st.last_operation)
         THEN LET br2 == Submit(br, "sell", SellSize(br.position), b, n)
              IN  [st |-> [st EXCEPT !.order = br2.last, !.last_operation = "sell"],
                   br |-> br2]
         ELSE [st |-> st, br |-> br]

\* clears the pending order but never records the executed buy price
macd_notify_order_noprice(st, ords, nt) ==
    IF nt.status \in {"Submitted", "Accepted"} THEN st ELSE [st EXCEPT !.order = 0]

\* clears the pending order only when the order was filled
macd_notify_order_filled_only(st, ords, nt) ==
    IF nt.status = "Completed"
    THEN IF ords[nt.ref].side = "buy"
         THEN [st EXCEPT !.buy_price = ords[nt.ref].eprice, !.order = 0]
         ELSE [st EXCEPT !.order = 0]
    ELSE st

\* notify_order(order) for the notification nt
macd_notify_order(st, ords, nt) ==
    IF nt.status \in {"Submitted", "Accepted"} THEN st
    ELSE IF nt.status = "Completed" /\ ords[nt.ref].side = "buy"
         THEN [st EXCEPT !.buy_price = ords[nt.ref].eprice, !.order = 0]
         ELSE [st EXCEPT !.order = 0]

(***************************************************************************)
(* MACrossStrategy                                                         *)
(***************************************************************************)
macross_next(st, br, b, n) ==
    IF br.position = 0
    THEN IF b.crossover > 0
         THEN [st |-> st, br |-> Submit(br, "buy", stake, b, n)]
         ELSE [st |-> st, br |-> br]
    ELSE IF b.crossover < 0
         THEN [st |-> st, br |-> Submit(br, "sell", stake, b, n)]
         ELSE [st |-> st, br |-> br]

\* notify_order only logs
macross_notify_order(st, ords, nt) == st

Strat == [order |-> order, buy_price |-> buy_price, last_operation |-> last_operation]

(***************************************************************************)
(* PerformanceAnalyzer.calculate_metrics on the value sequence v.          *)
(* A daily return is kept as the fraction num/den with den > 0.            *)
(***************************************************************************)
\* pct_change().fillna(0): entry 1 is the filled 0
RetNum(v, t) == IF t = 1 THEN 0 ELSE v[t] - v[t - 1]
\* a value of 0 followed by 0 gives NaN, which fillna(0) replaces as well
RetDen(v, t) == IF t = 1 \/ v[t - 1] = 0 THEN 1 ELSE v[t - 1]

DailyReturns(v) == [t \in 1..Len(v) |-> [num |-> RetNum(v, t), den |-> RetDen(v, t)]]

SameFraction(x, y) == x.num * y.den = y.num * x.den

\* daily_returns.std() (sample standard deviation over every entry of
\* daily_returns): NaN for one entry, 0 iff all entries are equal
Volatility(r) ==
    IF Len(r) < 2 THEN "nan"
    ELSE IF \A s, t \in 1..Len(r) : SameFraction(r[s], r[t]) THEN "zero"
    ELSE "positive"

RECURSIVE Pow(_, _)
Pow(x, k) == IF k = 0 THEN 1 ELSE x * Pow(x, k - 1)

\* annual_return/100 = risk_free_rate, i.e. (last/first)^(252/days) = 103/100.
\* 103 is prime, so this needs days to be a multiple of 252.
AnnualEqualsRiskFree(v) ==
    LET days == Len(v)
    IN  /\ days % 252 = 0
        /\ v[days] * Pow(100, days \div 252) = v[1] * Pow(103, days \div 252)

SharpeRatio(v) ==
    LET volatility == Volatility(DailyReturns(v))
    IN  IF volatility = "zero" THEN "zero"
        ELSE IF volatility = "nan" THEN "nan"
        ELSE IF AnnualEqualsRiskFree(v) THEN "zero" ELSE "nonzero"

RECURSIVE GCD(_, _)
GCD(a, b) == IF b = 0 THEN a ELSE GCD(b, a % b)

\* the fraction x in lowest terms (x.num >= 0, x.den > 0)
Reduced(x) == [num |-> x.num \div GCD(x.num, x.den), den |-> x.den \div GCD(x.num, x.den)]

\* x <= y for fractions with positive denominators
AtMost(x, y) == x.num * y.den <= y.num * x.den

\* (1 + daily_returns).cumprod()
RECURSIVE CumulativeReturns(_)
CumulativeReturns(r) ==
    IF Len(r) = 0 THEN << >>
    ELSE LET last == r[Len(r)]
             growth == [num |-> last.den + last.num, den |-> last.den]
             front == CumulativeReturns(SubSeq(r, 1, Len(r) - 1))
         IN  IF front = << >> THEN << growth >>
             ELSE Append(front, Reduced([num |-> front[Len(front)].num * growth.num,
                                         den |-> front[Len(front)].den * growth.den]))

\* takes the maximum of the whole curve at every t
RollingMaxWhole(c) ==
    [t \in 1..Len(c) |-> c[CHOOSE u \in 1..Len(c) : \A w \in 1..Len(c) : AtMost(c[w], c[u])]]

\* cumulative_returns.expanding().max()
RECURSIVE RollingMax(_)
RollingMax(c) ==
    IF Len(c) = 0 THEN << >>
    ELSE LET front == RollingMax(SubSeq(c, 1, Len(c) - 1))
         IN  IF front = << >> THEN << c[1] >>
             ELSE Append(front, IF AtMost(c[Len(c)], front[Len(front)])
                                THEN front[Len(front)] ELSE c[Len(c)])

\* -drawdowns = (rolling_max - cumulative_returns) / rolling_max, as fractions
Drawdown(c, m) ==
    [t \in 1..Len(c) |-> Reduced([num |-> m[t].num * c[t].den - c[t].num * m[t].den,
                                  den |-> m[t].num * c[t].den])]

\* abs(drawdowns.min())
MaxDrawdown(v) ==
    LET cumulative_returns == CumulativeReturns(DailyReturns(v))
        rolling_max == RollingMax(cumulative_returns)
        drawdowns == Drawdown(cumulative_returns, rolling_max)
    IN  drawdowns[CHOOSE t \in 1..Len(v) : \A u \in 1..Len(v) :
                      AtMost(drawdowns[u], drawdowns[t])]

Wins(r) == Cardinality({t \in 1..Len(r) : r[t].num > 0})
NonZero(r) == Cardinality({t \in 1..Len(r) : r[t].num # 0})

\* PerformanceAnalyzer(v).calculate_metrics(): the record returned, or the
\* exception that leaves it
calculate_metrics(v) ==
    IF Len(v) = 0 THEN [status |-> "IndexError"]
    ELSE LET daily_returns == DailyReturns(v)
         IN  IF NonZero(daily_returns) = 0 THEN [status |-> "ZeroDivisionError"]
             ELSE [status |-> "ok",
                   volatility |-> Volatility(daily_returns),
                   sharpe_ratio |-> SharpeRatio(v),
                   max_drawdown |-> MaxDrawdown(v),
                   win_rate |-> [num |-> Wins(daily_returns),
                                 den |-> NonZero(daily_returns)]]

(***************************************************************************)
(* The run                                                                 *)
(***************************************************************************)
NoMetrics == [status |-> "none"]

Init ==
    /\ strategy \in {"macd", "macross"}
    /\ macd_threshold = 0
    /\ lookback = Lookback
    /\ initial_cash = InitialCash
    /\ data = "table"
    /\ datas = 1
    /\ nbars \in 1..MaxBars
    /\ bar = 0
    /\ cur = NoBar
    /\ prev_hist = 0
    /\ prev_below = FALSE
    /\ const_close = TRUE
    /\ pc = "broker"
    /\ cash = initial_cash
    /\ position = 0
    /\ orders = << >>
    /\ submitted = << >>
    /\ notifs = << >>
    /\ orderspending = << >>
    /\ order = 0
    /\ buy_price = 0
    /\ last_operation = "none"
    /\ values = << >>
    /\ portfolio_values = << >>
    /\ pv = << >>
    /\ metrics = NoMetrics
    /\ factor_data = << >>
    /\ results = {}

\* The feed delivers the next bar; broker.next() resolves the orders queued
\* on the bar before; the notifications go to the strategy.
BrokerNext ==
    /\ pc = "broker"
    /\ bar < nbars
    /\ \E b \in Bars(strategy, bar = 0 \/ lookback = 0, IF const_close THEN cur.close ELSE 0) :
         LET br == broker_next(Broker, b, bar + 1)
         IN  /\ cur' = b
             /\ const_close' = (const_close /\ (bar = 0 \/ b.close = cur.close))
             /\ cash' = br.cash
             /\ position' = br.position
             /\ orders' = br.orders
             /\ submitted' = br.submitted
             /\ orderspending' = orderspending \o br.notifs
             /\ notifs' = << >>
    /\ bar' = bar + 1
    /\ prev_hist' = cur.hist
    /\ prev_below' = (bar > 0 /\ cur.close < cur.ema)
    /\ pc' = "strategy"
    /\ UNCHANGED << config, analysis, data, datas, nbars, order, buy_price, last_operation, values,
                    portfolio_values, pv, metrics >>

\* Strategy._notify(): one pending notification goes to notify_order
NotifyOrder ==
    /\ pc = "strategy"
    /\ orderspending # << >>
    /\ LET st == IF strategy = "macd"
                 THEN macd_notify_order(Strat, orders, Head(orderspending))
                 ELSE macross_notify_order(Strat, orders, Head(orderspending))
       IN  /\ order' = st.order
           /\ buy_price' = st.buy_price
           /\ last_operation' = st.last_operation
    /\ orderspending' = Tail(orderspending)
    /\ UNCHANGED << config, analysis, data, datas, nbars, bar, cur, prev_hist, prev_below, const_close, pc, cash,
                    position, orders, submitted, notifs, values, portfolio_values,
                    pv, metrics >>

\* prenext() inside the lookback window, next() after it
StrategyNext ==
    /\ pc = "strategy"
    /\ orderspending = << >>
    /\ LET r == IF bar <= lookback THEN [st |-> Strat, br |-> Broker]
                ELSE IF strategy = "macd"
                     THEN macd_next(Strat, Broker, cur, prev_hist, bar)
                     ELSE macross_next(Strat, Broker, cur, bar)
       IN  /\ order' = r.st.order
           /\ buy_price' = r.st.buy_price
           /\ last_operation' = r.st.last_operation
           /\ orders' = r.br.orders
           /\ submitted' = r.br.submitted
           /\ notifs' = r.br.notifs
    /\ pc' = "analyzer"
    /\ UNCHANGED << config, analysis, data, datas, nbars, bar, cur, prev_hist, prev_below, const_close, cash, position,
                    orderspending, values, portfolio_values, pv, metrics >>

\* broker.getvalue() on the bar b
AnalyzerValue(c, p, b) == c + p * b.close

\* records a value only once the strategy's minimum period is met
AnalyzerNextAfterLookback ==
    /\ pc = "analyzer"
    /\ values' = IF bar <= lookback THEN values
                 ELSE Append(values, AnalyzerValue(cash, position, cur))
    /\ pc' = IF bar < nbars THEN "broker" ELSE "stop"
    /\ UNCHANGED << config, analysis, data, datas, nbars, bar, cur, prev_hist, prev_below, const_close, cash, position,
                    orders, submitted, notifs, orderspending, order, buy_price,
                    last_operation, portfolio_values, pv, metrics >>

\* ValueAnalyzer.next(), called on every bar (an analyzer's prenext calls next)
AnalyzerNext ==
    /\ pc = "analyzer"
    /\ values' = Append(values, AnalyzerValue(cash, position, cur))
    /\ pc' = IF bar < nbars THEN "broker" ELSE "stop"
    /\ UNCHANGED << config, analysis, data, datas, nbars, bar, cur, prev_hist, prev_below, const_close, cash, position,
                    orders, submitted, notifs, orderspending, order, buy_price,
                    last_operation, portfolio_values, pv, metrics >>

\* BacktestEngine.run() after cerebro.run() returns
RunEnd ==
    /\ pc = "stop"
    /\ portfolio_values' = values
    /\ pc' = "main"
    /\ UNCHANGED << config, analysis, data, datas, nbars, bar, cur, prev_hist, prev_below, const_close, cash, position,
                    orders, submitted, notifs, orderspending, order, buy_price,
                    last_operation, values, pv, metrics >>

\* main(): one value per row of data, padded with the last value
RECURSIVE Collect(_, _, _)
Collect(ev, n, acc) ==
    IF Len(acc) = n THEN acc
    ELSE IF Len(acc) < Len(ev) THEN Collect(ev, n, Append(acc, ev[Len(acc) + 1]))
    ELSE Collect(ev, n, Append(acc, IF acc # << >> THEN acc[Len(acc)] ELSE InitialCash))

MainCollect ==
    /\ pc = "main"
    /\ pv' = Collect(portfolio_values, nbars, << >>)
    /\ pc' = "metrics"
    /\ UNCHANGED << config, analysis, data, datas, nbars, bar, cur, prev_hist, prev_below, const_close, cash, position,
                    orders, submitted, notifs, orderspending, order, buy_price,
                    last_operation, values, portfolio_values, metrics >>

CalculateMetrics ==
    /\ pc = "metrics"
    /\ metrics' = calculate_metrics(pv)
    /\ pc' = "done"
    /\ UNCHANGED << config, analysis, data, datas, nbars, bar, cur, prev_hist, prev_below, const_close, cash, position,
                    orders, submitted, notifs, orderspending, order, buy_price,
                    last_operation, values, portfolio_values, pv >>

Next ==
    \/ BrokerNext
    \/ NotifyOrder
    \/ StrategyNext
    \/ AnalyzerNext
    \/ RunEnd
    \/ MainCollect
    \/ CalculateMetrics

Spec == Init /\ [][Next]_vars

(***************************************************************************)
(* main() from the download on, for the configurations the engine and the  *)
(* strategy accept                                                         *)
(***************************************************************************)
InitMain ==
    /\ strategy \in {"macd", "macross"}
    /\ macd_threshold \in IF strategy = "macd" THEN Thresholds ELSE {0}
    /\ lookback \in 0..Lookback
    /\ initial_cash \in {0, InitialCash}
    /\ data = "unset"
    /\ datas = 0
    /\ nbars = 0
    /\ bar = 0
    /\ cur = NoBar
    /\ prev_hist = 0
    /\ prev_below = FALSE
    /\ const_close = TRUE
    /\ pc = "load"
    /\ cash = 0
    /\ position = 0
    /\ orders = << >>
    /\ submitted = << >>
    /\ notifs = << >>
    /\ orderspending = << >>
    /\ order = 0
    /\ buy_price = 0
    /\ last_operation = "none"
    /\ values = << >>
    /\ portfolio_values = << >>
    /\ pv = << >>
    /\ metrics = NoMetrics
    /\ factor_data = << >>
    /\ results = {}

\* DataLoader.download_data(market='A'): None when the fetch or the renaming
\* of its columns raises, the table (of any length) otherwise
DownloadData ==
    /\ pc = "load"
    /\ \/ data' = "None" /\ nbars' = 0
       \/ \E n \in 0..MaxRows : data' = "table" /\ nbars' = n
    /\ pc' = "loaded"
    /\ UNCHANGED << config, analysis, datas, bar, cur, prev_hist, prev_below, const_close, cash,
                    position, orders, submitted, notifs, orderspending, order, buy_price,
                    last_operation, values, portfolio_values, pv, metrics >>

\* main(): if data is None: return
MainAbort ==
    /\ pc = "loaded"
    /\ data = "None"
    /\ pc' = "aborted"
    /\ UNCHANGED << config, analysis, data, datas, nbars, bar, cur, prev_hist, prev_below,
                    const_close, cash, position, orders, submitted, notifs,
                    orderspending, order, buy_price, last_operation, values,
                    portfolio_values, pv, metrics >>

\* main(): BacktestEngine(initial_cash), add_data(data), add_strategy(...)
MainSetup ==
    /\ pc = "loaded"
    /\ data # "None"
    /\ cash' = initial_cash
    /\ datas' = datas + 1
    /\ pc' = "broker"
    /\ UNCHANGED << config, analysis, data, nbars, bar, cur, prev_hist, prev_below, const_close,
                    position, orders, submitted, notifs, orderspending, order, buy_price,
                    last_operation, values, portfolio_values, pv, metrics >>

\* cerebro.run() on a feed without rows: no bar is delivered; the library
\* either returns or raises
RunEmpty ==
    /\ pc = "broker"
    /\ nbars = 0
    /\ pc' \in {"stop", "crashed"}
    /\ UNCHANGED << config, analysis, data, datas, nbars, bar, cur, prev_hist, prev_below,
                    const_close, cash, position, orders, submitted, notifs,
                    orderspending, order, buy_price, last_operation, values,
                    portfolio_values, pv, metrics >>

NextMain ==
    \/ DownloadData
    \/ MainAbort
    \/ MainSetup
    \/ RunEmpty
    \/ Next

SpecMain == InitMain /\ [][NextMain]_vars

(***************************************************************************)
(* calculate_metrics alone, on every value sequence within the bounds      *)
(***************************************************************************)
RECURSIVE SeqsUpTo(_, _)
SeqsUpTo(S, n) ==
    IF n = 0 THEN {<< >>}
    ELSE LET shorter == SeqsUpTo(S, n - 1)
         IN  shorter \cup {Append(q, x) : q \in shorter, x \in S}

InitPA ==
    /\ strategy = "macd"
    /\ macd_threshold = 0
    /\ lookback = Lookback
    /\ initial_cash = InitialCash
    /\ data = "table"
    /\ datas = 1
    /\ nbars \in 0..MaxLen
    /\ bar = nbars
    /\ cur = NoBar
    /\ prev_hist = 0
    /\ prev_below = FALSE
    /\ const_close = FALSE
    /\ pc = "metrics"
    /\ cash = InitialCash
    /\ position = 0
    /\ orders = << >>
    /\ submitted = << >>
    /\ notifs = << >>
    /\ orderspending = << >>
    /\ order = 0
    /\ buy_price = 0
    /\ last_operation = "none"
    /\ values = << >>
    /\ portfolio_values = << >>
    /\ pv \in {q \in SeqsUpTo(EquityValues, MaxLen) : Len(q) = nbars}
    /\ metrics = NoMetrics
    /\ factor_data = << >>
    /\ results = {}

NextPA == CalculateMetrics

SpecPA == InitPA /\ [][NextPA]_vars

(***************************************************************************)
(* FactorAnalyzer.analyze_factors on a factor table.  A cell is "nan" or   *)
(* "num" (any number); the information coefficient and the quintile spread *)
(* are library computations over the frame left by dropna(), of which the  *)
(* result keeps the index.                                                 *)
(***************************************************************************)
factors == {"momentum_5", "momentum_20"}
predict_periods == {"future_return_1d", "future_return_5d"}
Cells == {"nan", "num"}

\* pd.DataFrame({'factor': df[factor], 'return': df[period]})
PairFrame(df, factor, period) ==
    [i \in 1..Len(df) |-> [factor |-> df[i][factor], return |-> df[i][period]]]

\* index of frame.dropna(): the rows without a missing cell
dropna(frame) ==
    {i \in DOMAIN frame : frame[i].factor # "nan" /\ frame[i].return # "nan"}

\* index of df.dropna(): the rows without a missing cell in any column
CompleteRows(df) ==
    {i \in 1..Len(df) : \A c \in factors \cup predict_periods : df[i][c] # "nan"}

\* drops the rows with a missing cell in any column before pairing
analyze_factors_complete_rows(df) ==
    { [factor |-> f, period |-> p, index |-> CompleteRows(df),
       sample_size |-> Cardinality(CompleteRows(df))] :
         f \in {g \in factors : CompleteRows(df) # {}}, p \in predict_periods }

\* analyze_factors(): a record for each pair whose frame is not empty
analyze_factors(df) ==
    { [factor |-> pair[1], period |-> pair[2],
       index |-> dropna(PairFrame(df, pair[1], pair[2])),
       sample_size |-> Cardinality(dropna(PairFrame(df, pair[1], pair[2])))] :
         pair \in { q \in factors \X predict_periods :
                       Cardinality(dropna(PairFrame(df, q[1], q[2]))) > 0 } }

InitFA ==
    /\ strategy = "macd"
    /\ macd_threshold = 0
    /\ lookback = Lookback
    /\ initial_cash = InitialCash
    /\ data = "table"
    /\ datas = 0
    /\ nbars = 0
    /\ bar = 0
    /\ cur = NoBar
    /\ prev_hist = 0
    /\ prev_below = FALSE
    /\ const_close = TRUE
    /\ pc = "factors"
    /\ cash = 0
    /\ position = 0
    /\ orders = << >>
    /\ submitted = << >>
    /\ notifs = << >>
    /\ orderspending = << >>
    /\ order = 0
    /\ buy_price = 0
    /\ last_operation = "none"
    /\ values = << >>
    /\ portfolio_values = << >>
    /\ pv = << >>
    /\ metrics = NoMetrics
    /\ factor_data \in SeqsUpTo([factors \cup predict_periods -> Cells], MaxFactorRows)
    /\ results = {}

AnalyzeFactors ==
    /\ pc = "factors"
    /\ results' = analyze_factors(factor_data)
    /\ pc' = "analyzed"
    /\ UNCHANGED << config, factor_data, data, datas, nbars, bar, cur, prev_hist,
                    prev_below, const_close, cash, position, orders, submitted, notifs,
                    orderspending, order, buy_price, last_operation, values,
                    portfolio_values, pv, metrics >>

NextFA == AnalyzeFactors

SpecFA == InitFA /\ [][NextFA]_vars

(***************************************************************************)
(* Properties                                                              *)
(***************************************************************************)
Refs == 1..Len(orders)
Outstanding == {ref \in Refs : orders[ref].status \in {"Submitted", "Accepted"}}
Resolved(o) == o.status \in {"Completed", "Margin"}
\* the strategy's next()/prenext() is about to run on the current bar
AtNext == pc = "strategy" /\ orderspending = << >>
\* the equity point of the current bar has just been appended
BarRecorded == pc \in {"broker", "stop"} /\ bar > 0

\* C1: under MACDHistogramStrategy at most one order is outstanding in every
\* state, the broker queue never holds more than one order, and an
\* outstanding order is the one held in self.order (so next() returns at its
\* guard and submits nothing while it is pending).
C1_AtMostOneOutstanding ==
    strategy = "macd" =>
        /\ Cardinality(Outstanding) <= 1
        /\ Len(submitted) <= 1
        /\ \A ref \in Outstanding : order = ref

\* C1 witness: next() has run on a bar and left exactly one pending order.
C1_Witness ==
    /\ strategy = "macd" /\ pc = "analyzer"
    /\ Cardinality(Outstanding) = 1 /\ order \in Outstanding
    /\ Len(orders) = 2

\* C2 (as claimed): when the equity point of bar t is appended, every order
\* created on bar t is already filled, on bar t and at bar t's close.
C2_FilledAtSignalClose ==
    (strategy = "macd" /\ BarRecorded) =>
        \A ref \in Refs :
            orders[ref].cbar = bar =>
                /\ orders[ref].status = "Completed"
                /\ orders[ref].ebar = bar
                /\ orders[ref].eprice = orders[ref].cprice

\* C2 (amended): an order created on bar t is untouched while bar t lasts and
\* is resolved by the broker on bar t+1 before the rules of bar t+1 run: it
\* fills at bar t+1's open or ends as Margin.  Under MACDHistogramStrategy,
\* when the equity point of bar t+1 is computed, position, cash and buy_price
\* reflect that fill.
C2_FilledAtNextOpen ==
    \A ref \in Refs :
        LET o == orders[ref]
        IN  /\ o.cbar = bar => o.status = "Submitted"
            /\ o.cbar < bar => Resolved(o)
            /\ o.status = "Completed" => o.ebar = o.cbar + 1
            /\ (o.status = "Completed" /\ o.ebar = bar) => o.eprice = cur.open
            /\ (strategy = "macd" /\ o.status = "Completed" /\ o.ebar = bar
                   /\ pc = "analyzer") =>
                  IF o.side = "buy"
                  THEN /\ position = o.size
                       /\ buy_price = o.eprice
                       /\ cash + o.size * o.eprice = values[bar - 1]
                  ELSE position = 0

\* C2 witness: a buy created on one bar has filled on the next bar at an open
\* that differs from the close it was created at.
C2_Witness ==
    /\ strategy = "macd" /\ pc = "analyzer"
    /\ \E ref \in Refs :
          /\ orders[ref].side = "buy" /\ orders[ref].status = "Completed"
          /\ orders[ref].ebar = bar /\ orders[ref].eprice # orders[ref].cprice

\* C3 (as claimed): when the entry rule fires and the computed size is <= 0,
\* next() leaves position, cash, the pending-order slot, last_operation and
\* the order book as they were.
C3_ZeroSizeBuyChangesNothing ==
    [][(/\ strategy = "macd" /\ AtNext /\ bar > lookback
        /\ order = 0 /\ position = 0
        /\ should_buy(cur, prev_hist, bar, last_operation)
        /\ BuySize(cash, cur.close) <= 0)
       => (/\ position' = position /\ cash' = cash /\ order' = order
           /\ orders' = orders /\ last_operation' = last_operation)]_vars

\* C4: cash is never negative, and the value of every buy order that
\* MACDHistogramStrategy has submitted, at the close it was sized with, is
\* within the cash held.
C4_CashNeverNegative ==
    /\ cash >= 0
    /\ strategy = "macd" =>
          \A ref \in Refs :
              (orders[ref].side = "buy" /\ orders[ref].status = "Submitted") =>
                  orders[ref].size * orders[ref].cprice <= cash

\* C4 witness: a buy has filled and used up all the cash.
C4_Witness ==
    /\ strategy = "macd" /\ cash = 0
    /\ \E ref \in Refs : orders[ref].side = "buy" /\ orders[ref].status = "Completed"

\* C5: under both strategies the position is never negative; a sell order
\* waiting to fill is no larger than the open position, and under
\* MACDHistogramStrategy it is the whole position, which its fill closes.
C5_NoShortSelling ==
    /\ position >= 0
    /\ \A ref \in Refs :
          LET o == orders[ref]
          IN  /\ (o.side = "sell" /\ ~Resolved(o)) =>
                    /\ position > 0
                    /\ o.size <= position
                    /\ strategy = "macd" => o.size = position
              /\ (o.side = "sell" /\ o.status = "Completed" /\ o.ebar = bar
                     /\ strategy = "macd") => position = 0

\* C5 witness: a sell of the whole position has filled.
C5_Witness ==
    /\ strategy = "macd" /\ position = 0
    /\ \E ref \in Refs :
          /\ orders[ref].side = "sell" /\ orders[ref].status = "Completed"
          /\ orders[ref].size > 1

\* next() of MACDHistogramStrategy runs on the current bar with no position
\* and no pending order / with a position and no pending order
FlatAtNext ==
    strategy = "macd" /\ AtNext /\ bar > lookback /\ position = 0 /\ order = 0
LongAtNext ==
    strategy = "macd" /\ AtNext /\ bar > lookback /\ position > 0 /\ order = 0

\* the step creates exactly one order, of this side, on the current bar
Submits(side) ==
    /\ Len(orders') = Len(orders) + 1
    /\ orders'[Len(orders')].side = side
    /\ orders'[Len(orders')].cbar = bar
    /\ order' = Len(orders')

\* C6 (as claimed): flat and with nothing pending, a buy is submitted on the
\* bar iff the histogram went from <= threshold to > threshold, close is
\* above the trend EMA, volume is above 1.2 x its average, the MACD line is
\* above 0 and last_operation is not buy.
C6_BuyIffEntryRule ==
    [][FlatAtNext =>
         (Submits("buy") <=>
            (/\ prev_hist <= macd_threshold /\ cur.hist > macd_threshold
             /\ cur.close > cur.ema
             /\ cur.volume * 10 > cur.volume_ma * 12
             /\ cur.macd > 0
             /\ last_operation # "buy"))]_vars

\* C6 (amended): the same equivalence with a strict cross (previous value
\* < threshold) and with the size floor(cash * 0.95 / close) being at least 1.
C6_BuyIffStrictCrossAndSize ==
    [][FlatAtNext =>
         (Submits("buy") <=>
            (/\ prev_hist < macd_threshold /\ cur.hist > macd_threshold
             /\ cur.close > cur.ema
             /\ cur.volume * 10 > cur.volume_ma * 12
             /\ cur.macd > 0
             /\ last_operation # "buy"
             /\ cash * 95 >= 100 * cur.close))]_vars

\* C6 witness: a buy was submitted on the bar of the cross.
C6_Witness ==
    /\ strategy = "macd" /\ pc = "analyzer" /\ order # 0
    /\ orders[order].side = "buy" /\ orders[order].cbar = bar
    /\ prev_hist < macd_threshold /\ cur.hist > macd_threshold

\* C7: with a position, nothing pending and the close at or beyond the
\* take-profit or the stop-loss fraction of the recorded entry price, next()
\* submits a sell of the whole position on that bar (and the entry price is
\* recorded whenever next() runs with a position).
C7_ProfitLossExit ==
    [][LongAtNext =>
         /\ buy_price > 0
         /\ ((cur.close - buy_price) * 100 >= exit_profit_pct * buy_price
              \/ (buy_price - cur.close) * 100 >= exit_loss_pct * buy_price)
             => (Submits("sell") /\ orders'[Len(orders')].size = position)]_vars

\* C7 witness: a stop-loss sell was submitted on a bar whose histogram did
\* not cross down and whose close is not below the trend EMA.
C7_Witness ==
    /\ strategy = "macd" /\ pc = "analyzer" /\ order # 0 /\ position > 0
    /\ orders[order].side = "sell" /\ orders[order].cbar = bar
    /\ (buy_price - cur.close) * 100 >= exit_loss_pct * buy_price
    /\ cur.close >= cur.ema /\ cur.hist >= 0

\* The equity points recorded so far: one per finished bar, the newest one
\* the portfolio value of its bar; after the run the engine and main() hold
\* exactly len(data) points, the same ones.
C8_PointsSoFar ==
    /\ Len(values) = (IF pc \in {"strategy", "analyzer"} THEN bar - 1 ELSE bar)
    /\ BarRecorded => values[bar] = cash + position * cur.close
    /\ pc \in {"main", "metrics", "done"} =>
          (Len(portfolio_values) = nbars /\ portfolio_values = values)
    /\ pc \in {"metrics", "done"} => (Len(pv) = nbars /\ pv = values)

\* C8: one equity point per bar, appended on that bar (lookback bars
\* included) with the portfolio value of that bar, and never dropped or
\* rewritten afterwards; after a run over N bars the engine and main() hold
\* exactly those N points.
C8_OnePointPerBar ==
    /\ []C8_PointsSoFar
    /\ [][/\ Len(values') >= Len(values)
          /\ \A i \in 1..Len(values) : values'[i] = values[i]]_vars

\* C8 witness: a finished run over more bars than the lookback whose equity
\* moved while a position was held.
C8_Witness ==
    /\ pc = "done" /\ nbars > lookback + 2 /\ Len(pv) = nbars
    /\ pv[1] = InitialCash /\ pv[nbars] # InitialCash

\* C9 (as claimed): a finished run over bars of constant close has submitted
\* no order, every equity point equals the initial cash, and the metrics are
\* computed, with Sharpe ratio 0 and max drawdown 0.
C9_FlatRunHasMetrics ==
    (pc = "done" /\ const_close /\ nbars >= 2) =>
        /\ orders = << >>
        /\ \A i \in 1..Len(pv) : pv[i] = InitialCash
        /\ metrics.status = "ok"
        /\ metrics.sharpe_ratio = "zero"
        /\ metrics.max_drawdown.num = 0

\* the N-1 daily returns value_t / value_{t-1} - 1 of v are all equal
ConstantReturns(v) ==
    \A s, t \in 2..Len(v) : (v[s] - v[s - 1]) * v[t - 1] = (v[t] - v[t - 1]) * v[s - 1]

\* C10 (as claimed): for an equity sequence of length >= 2 with constant
\* daily returns, calculate_metrics returns a record whose Sharpe ratio is 0,
\* with the volatility of the N-1 returns (which is 0).
C10_ConstantReturnsSharpeZero ==
    (pc = "done" /\ Len(pv) >= 2 /\ ConstantReturns(pv)) =>
        /\ metrics.status = "ok"
        /\ metrics.sharpe_ratio = "zero"
        /\ metrics.volatility = "zero"

\* C11 (as claimed): the win rate is (# days with a positive return) / (# days
\* with a non-zero return), and when every daily return is zero
\* calculate_metrics fails with InsufficientData and not with an arithmetic
\* error.
C11_WinRateOrInsufficientData ==
    (pc = "done" /\ Len(pv) >= 2) =>
        IF \A t \in 2..Len(pv) : pv[t] = pv[t - 1]
        THEN metrics.status = "InsufficientData"
        ELSE /\ metrics.status = "ok"
             /\ metrics.win_rate.num = Cardinality({t \in 2..Len(pv) : pv[t] > pv[t - 1]})
             /\ metrics.win_rate.den = Cardinality({t \in 2..Len(pv) : pv[t] # pv[t - 1]})

\* max(value_1..value_t)
RunningPeak(v, t) == CHOOSE m \in {v[u] : u \in 1..t} : \A u \in 1..t : v[u] <= m

NonDecreasing(v) == \A t \in 2..Len(v) : v[t - 1] <= v[t]

C13_ShortSequenceInsufficientData ==
    (pc = "done" /\ Len(pv) < 2) => metrics.status = "InsufficientData"

\* C16 (as claimed): every fill is charged a commission at the configured
\* (positive) commission rate: a filled buy lowers cash by more than its fill
\* value and a filled sell raises cash by less than its fill value.
C16_CommissionCharged ==
    [][\A ref \in Refs :
          (orders[ref].status # "Completed" /\ orders'[ref].status = "Completed") =>
              LET o == orders'[ref]
              IN  IF o.side = "buy" THEN cash' < cash - o.size * o.eprice
                  ELSE cash' < cash + o.size * o.eprice]_vars

\* C16 (amended): no commission rate is configured and the broker charges
\* none: a filled buy lowers cash by exactly fill_price * size and a filled
\* sell raises it by exactly fill_price * size, the position moves by the
\* size in the same step, and a step without a fill leaves both unchanged.
C16_FillMovesCashByFillValue ==
    [][(\A ref \in Refs :
          (orders[ref].status # "Completed" /\ orders'[ref].status = "Completed") =>
              LET o == orders'[ref]
              IN  IF o.side = "buy"
                  THEN cash' = cash - o.size * o.eprice /\ position' = position + o.size
                  ELSE cash' = cash + o.size * o.eprice /\ position' = position - o.size)
       /\ ((\A done \in Refs : orders[done].status = "Completed"
                                  \/ orders'[done].status # "Completed")
              => (cash' = cash /\ position' = position))]_vars

\* C16 witness: a sell has just been filled and the round trip left the cash
\* different from the initial cash.
C16_Witness ==
    /\ pc = "strategy" /\ cash # initial_cash /\ position = 0
    /\ \E ref \in Refs : /\ orders[ref].side = "sell" /\ orders[ref].status = "Completed"
                         /\ orders[ref].ebar = bar

\* C17: every buy order MACDHistogramStrategy submits asks for
\* floor(cash * 0.95 / close) shares, with the cash and the close of the bar
\* whose next() submits it.
C17_BuySizeIsFloorOf95PerCent ==
    [][(strategy = "macd" /\ Len(orders') > Len(orders)
            /\ orders'[Len(orders')].side = "buy")
       => LET o == orders'[Len(orders')]
          IN  /\ Len(orders') = Len(orders) + 1
              /\ o.cbar = bar /\ o.cprice = cur.close
              /\ o.size * 100 * cur.close <= cash * 95
              /\ cash * 95 < (o.size + 1) * 100 * cur.close]_vars

\* C17 witness: a buy order of 2 shares sized at a close of 8 (19 / 8 is
\* truncated), and a second buy order sized after a round trip.
C17_Witness ==
    \E r1, r2 \in Refs :
        /\ r1 < r2 /\ strategy = "macd"
        /\ orders[r1].side = "buy" /\ orders[r1].size = 2 /\ orders[r1].cprice = 8
        /\ orders[r2].side = "buy"

\* C19: with a position open and neither take-profit nor stop-loss reached,
\* next() submits a sell only on a bar where the histogram crosses below the
\* negative threshold or the close crosses below the trend EMA (the close of
\* the bar before was not below the EMA, this close is); a bar whose close is
\* below the EMA as was the close before it, without a histogram cross, leads
\* to no sell.
C19_IndicatorExitsAreCrossings ==
    [][(/\ LongAtNext
        /\ ~TakeProfit(cur, buy_price) /\ ~StopLoss(cur, buy_price)
        /\ Submits("sell"))
       => \/ (PrevHist(prev_hist, bar) > -macd_threshold /\ cur.hist < -macd_threshold)
          \/ (~prev_below /\ cur.close < cur.ema)]_vars

\* C19 witness: a sell order created on a bar whose close fell below the
\* trend EMA while the histogram did not cross and neither the take-profit
\* nor the stop-loss level was reached.
C19_Witness ==
    /\ strategy = "macd" /\ pc = "analyzer" /\ order # 0
    /\ orders[order].side = "sell" /\ orders[order].cbar = bar
    /\ cur.close < cur.ema /\ ~prev_below
    /\ ~(PrevHist(prev_hist, bar) > -macd_threshold /\ cur.hist < -macd_threshold)
    /\ ~TakeProfit(cur, buy_price) /\ ~StopLoss(cur, buy_price)

\* C14 (as claimed): a configuration whose macd_threshold or initial cash is
\* not positive is rejected before the first bar is processed: no order is
\* submitted and no equity point is recorded.
C14_InvalidConfigRejected ==
    (macd_threshold <= 0 \/ initial_cash <= 0) =>
        (orders = << >> /\ values = << >>)

\* C15 (as claimed): when the download fails or returns a table without
\* rows, the engine is given no data, no bar is simulated and no metrics are
\* computed (stated for the initial cash and the threshold main() runs with).
C15_NoDataNoRun ==
    (/\ pc # "load" /\ (data = "None" \/ nbars = 0)
     /\ initial_cash = InitialCash /\ macd_threshold = 0) =>
        (datas = 0 /\ bar = 0 /\ values = << >> /\ metrics = NoMetrics)

\* next() of MACDHistogramStrategy is about to evaluate its rules on a bar
\* whose histogram line holds no previous value
FirstBarAtNext == strategy = "macd" /\ AtNext /\ bar > lookback /\ bar <= 1

RunOver == pc \in {"stop", "main", "metrics", "done"}

\* C21 (as claimed): an order never leaves a terminal status, notify_order
\* clears self.order on a terminal notification and only then, the rules are
\* evaluated with self.order clear, and no order stays pending for ever: when
\* the run is over no order is outstanding and self.order is clear.
C21_NoOrderStaysPending ==
    (strategy = "macd" /\ RunOver) => (Outstanding = {} /\ order = 0)

\* C21 (amended): every order has one terminal outcome, Completed or Margin,
\* which it reaches on the bar after the one that created it and never
\* leaves; an order created on the last bar stays pending when the run ends.
\* notify_order clears self.order on a terminal notification and leaves it
\* on Submitted and Accepted, and next() always finds self.order clear, also
\* on the bar on which a buy has ended as Margin.
C21_ResolvedOnNextBar ==
    /\ [](/\ \A ref \in Refs : IF orders[ref].cbar < bar THEN Resolved(orders[ref])
                               ELSE /\ orders[ref].cbar = bar
                                    /\ orders[ref].status = "Submitted"
          /\ (strategy = "macd" /\ AtNext) => order = 0
          /\ (strategy = "macd" /\ order # 0) => order \in Refs)
    /\ [][/\ \A ref \in Refs : Resolved(orders[ref]) => orders'[ref] = orders[ref]
          /\ (strategy = "macd" /\ pc = "strategy" /\ orderspending # << >>) =>
                IF Head(orderspending).status \in {"Submitted", "Accepted"}
                THEN order' = order
                ELSE order' = 0]_vars

\* C21 witness: a finished run in which a buy ended as Margin on a bar that
\* was not the last one, and which recorded every bar after it.
C21_Witness ==
    /\ strategy = "macd" /\ pc = "done" /\ Len(pv) = nbars /\ order = 0
    /\ \E ref \in Refs : orders[ref].status = "Margin" /\ orders[ref].cbar + 1 < nbars

\* C23 (as claimed): under MACDHistogramStrategy, whenever no order is
\* pending, last_operation is 'buy' only if a position is open and 'sell'
\* only if the position is flat (so neither guard on last_operation can
\* block the rule that applies to the position).
C23_LastOperationAgreesWithPosition ==
    (strategy = "macd" /\ order = 0 /\ Outstanding = {}) =>
        /\ last_operation = "buy" => position > 0
        /\ last_operation = "sell" => position = 0

\* the rows of the factor table in which both columns hold a number
BothDefined(f, p) ==
    {i \in 1..Len(factor_data) : factor_data[i][f] # "nan" /\ factor_data[i][p] # "nan"}

====
